---------------------------- MODULE Spec2Model ----------------------------
(***************************************************************************)
(* A model of poetryanalysis/poetics.py: phoneme lookup, stress encoding,  *)
(* the rhyme matcher, the rhyme-scheme scanner, the nearest-catalog        *)
(* classifier and the form classifier.                                     *)
(*                                                                         *)
(* Python values are represented as follows.                               *)
(*   str            a sequence of one-character strings (so that a string  *)
(*                  can be sliced, repeated and compared character-wise);  *)
(*                  word tokens, which the code only uses as dictionary    *)
(*                  keys and compares for equality, are TLA+ strings       *)
(*   list           a sequence; Python index k (0-based) is k+1 here       *)
(*   None           NoneVal, the empty tuple; an int v that may be None    *)
(*                  is carried as <<v>>                                    *)
(*   dict           a sequence of <<key, value>> pairs in iteration order  *)
(*                  (catalogs), or a function (CMU, distances)             *)
(* Every function of the module is an operator of the same name.  A call   *)
(* is a frame: args (the parameters), locals (the loop variables of        *)
(* rhyme_scheme and guess_form), ret (the returned value), pc (position).  *)
(***************************************************************************)
EXTENDS Integers, Sequences, FiniteSets, TLC

VARIABLES pc, args, locals, ret

vars == <<pc, args, locals, ret>>

NoneVal == <<>>

NoLocals == <<>>

-----------------------------------------------------------------------------
(* Python built-ins used by the code *)

isdigit(ch) == ch \in {"0", "1", "2", "3", "4", "5", "6", "7", "8", "9"}

\* list truthiness: a list is false only when it is empty ([[]] is true)
truthy(lst) == Len(lst) > 0

\* s * k for a str or list s: the empty sequence when k <= 0
RECURSIVE repeat(_, _)
repeat(s, k) == IF k <= 0 THEN <<>> ELSE s \o repeat(s, k - 1)

\* s[:k] for k >= 0
prefix(s, k) == SubSeq(s, 1, IF k < Len(s) THEN k ELSE Len(s))

\* s[idx:] where idx is None (<<>>) or a negative index <<-i>>:
\* the whole of s for None, and for -i the last i elements (all of s when
\* s is shorter than i)
slice_from(s, idx) ==
    IF idx = NoneVal THEN s
    ELSE LET i == 0 - idx[1]
         IN  IF i >= Len(s) THEN s ELSE SubSeq(s, Len(s) - i + 1, Len(s))

\* ''.join(list of str)
RECURSIVE join(_)
join(parts) == IF parts = <<>> THEN <<>> ELSE Head(parts) \o join(Tail(parts))

\* str.lower() on the tokens of the vocabulary: the capitalised tokens are
\* mapped to their lower-case form, every other token is lower-case already
lower(word) ==
    CASE word = "Old" -> "old"
      [] word = "Cat" -> "cat"
      [] OTHER -> word

-----------------------------------------------------------------------------
(* The pronunciation dictionary (cmudict.json): an excerpt in the format of *)
(* the CMU dictionary, word -> list of pronunciations, each a list of       *)
(* phoneme symbols; a vowel symbol ends in its stress digit.                *)

CMU ==
    LET B == <<"B">>  D == <<"D">>  F == <<"F">>  G == <<"G">>
        H == <<"H","H">>  K == <<"K">>  L == <<"L">>  N == <<"N">>
        R == <<"R">>  S == <<"S">>  T == <<"T">>  V == <<"V">>
        Y == <<"Y">>  DH == <<"D","H">>
        AE1 == <<"A","E","1">>  AH0 == <<"A","H","0">>  AH1 == <<"A","H","1">>
        AO1 == <<"A","O","1">>  AY1 == <<"A","Y","1">>  EH1 == <<"E","H","1">>
        ER0 == <<"E","R","0">>  EY1 == <<"E","Y","1">>  IH0 == <<"I","H","0">>
        IY0 == <<"I","Y","0">>  IY1 == <<"I","Y","1">>  IY2 == <<"I","Y","2">>
        OW1 == <<"O","W","1">>  UW1 == <<"U","W","1">>
    IN  ("the"    :> << <<DH, AH0>>, <<DH, AH1>>, <<DH, IY0>> >>)
     @@ ("cat"    :> << <<K, AE1, T>> >>)
     @@ ("hat"    :> << <<H, AE1, T>> >>)
     @@ ("dog"    :> << <<D, AO1, G>> >>)
     @@ ("log"    :> << <<L, AO1, G>> >>)
     @@ ("bee"    :> << <<B, IY1>> >>)
     @@ ("tree"   :> << <<T, R, IY1>> >>)
     @@ ("day"    :> << <<D, EY1>> >>)
     @@ ("way"    :> << <<<<"W">>, EY1>> >>)
     @@ ("moon"   :> << <<<<"M">>, UW1, N>> >>)
     @@ ("soon"   :> << <<S, UW1, N>> >>)
     @@ ("night"  :> << <<N, AY1, T>> >>)
     @@ ("light"  :> << <<L, AY1, T>> >>)
     @@ ("sun"    :> << <<S, AH1, N>> >>)
     @@ ("fun"    :> << <<F, AH1, N>> >>)
     @@ ("old"    :> << <<OW1, L, D>> >>)
     @@ ("cold"   :> << <<K, OW1, L, D>> >>)
     @@ ("stew"   :> << <<S, T, UW1>> >>)
     @@ ("review" :> << <<R, IY2, V, Y, UW1>> >>)
     @@ ("red"    :> << <<R, EH1, D>> >>)
     @@ ("reed"   :> << <<R, IY1, D>> >>)
     @@ ("read"   :> << <<R, EH1, D>>, <<R, IY1, D>> >>)
     @@ ("a"      :> << <<AH0>>, <<EY1>> >>)
     @@ ("letter" :> << <<L, EH1, T, ER0>> >>)
     @@ ("city"   :> << <<S, IH0, T, IY1>> , <<S, IH0, T, IY0>> >>)
     @@ ("hmm"    :> << <<H, <<"M">>>> >>)
     @@ ("blessed" :> << <<B, L, EH1, S, T>>, <<B, L, EH1, S, IH0, D>> >>)
     @@ ("rabid"  :> << <<R, AE1, B, IH0, D>> >>)

get_syllables(word) ==
    IF lower(word) \in DOMAIN CMU THEN CMU[lower(word)] ELSE << <<>> >>

-----------------------------------------------------------------------------
(* num_vowels and get_nth_last_vowel *)

is_vowel(syl) == \E c \in 1..Len(syl) : isdigit(syl[c])

num_vowels(syllables) ==
    Cardinality({k \in 1..Len(syllables) : is_vowel(syllables[k])})

\* the loop of get_nth_last_vowel from iteration i with vowel_count vowels
\* seen so far; last is the last value of i (len(phones) in the code)
RECURSIVE nth_last_vowel_loop(_, _, _, _, _)
nth_last_vowel_loop(phones, n, i, last, vowel_count) ==
    IF i > last THEN NoneVal
    ELSE IF is_vowel(phones[Len(phones) - i + 1])
         THEN IF vowel_count + 1 = n THEN <<0 - i>>
              ELSE nth_last_vowel_loop(phones, n, i + 1, last, vowel_count + 1)
         ELSE nth_last_vowel_loop(phones, n, i + 1, last, vowel_count)

\* range(1, len(phones)): the loop stops one phoneme short of the first
get_nth_last_vowel_short(phones, n) ==
    nth_last_vowel_loop(phones, n, 1, Len(phones) - 1, 0)

get_nth_last_vowel(phones, n) ==
    nth_last_vowel_loop(phones, n, 1, Len(phones), 0)

-----------------------------------------------------------------------------
(* stress_from_syllables and stress *)

\* x.replace('2', '1') on one character
replace_2_by_1(x) == IF x = "2" THEN "1" ELSE x

stress_from_syllables(syllable_list) ==
    LET pronunciation_string == join(syllable_list)
        digits == SelectSeq(pronunciation_string, isdigit)
    IN  [k \in 1..Len(digits) |-> replace_2_by_1(digits[k])]

\* ord() of a digit character
ord(ch) ==
    CASE ch = "0" -> 48 [] ch = "1" -> 49 [] ch = "2" -> 50 [] ch = "3" -> 51
      [] ch = "4" -> 52 [] ch = "5" -> 53 [] ch = "6" -> 54 [] ch = "7" -> 55
      [] ch = "8" -> 56 [] ch = "9" -> 57

\* a < b on str (lexicographic)
RECURSIVE str_lt(_, _)
str_lt(a, b) ==
    IF b = <<>> THEN FALSE
    ELSE IF a = <<>> THEN TRUE
    ELSE IF Head(a) = Head(b) THEN str_lt(Tail(a), Tail(b))
    ELSE ord(Head(a)) < ord(Head(b))

\* list.sort() (by_len = FALSE) and list.sort(key=len) (by_len = TRUE):
\* a stable sort, so equal keys keep their order
sort_lt(a, b, by_len) == IF by_len THEN Len(a) < Len(b) ELSE str_lt(a, b)

RECURSIVE sort_insert(_, _, _)
sort_insert(x, done, by_len) ==
    IF done = <<>> THEN <<x>>
    ELSE IF sort_lt(x, Head(done), by_len) THEN <<x>> \o done
    ELSE <<Head(done)>> \o sort_insert(x, Tail(done), by_len)

RECURSIVE sort(_, _)
sort(lst, by_len) ==
    IF lst = <<>> THEN <<>>
    ELSE sort_insert(lst[Len(lst)], sort(SubSeq(lst, 1, Len(lst) - 1), by_len), by_len)

\* countsyl.count_syllables, the syllable-count fallback for words that are
\* not in the dictionary: a positive estimate per word
count_syllables(word) ==
    CASE word = "zyzzyva" -> 3
      [] word = "qwerty" -> 2
      [] OTHER -> 1

stress(word, variant) ==
    LET syllables == get_syllables(word)
    IN  IF truthy(syllables)
        THEN IF variant = "primary" \/ variant \notin {"all", "min", "max"}
             THEN stress_from_syllables(syllables[1])
             ELSE LET all_pronunciations ==
                          sort(sort([k \in 1..Len(syllables) |->
                                       stress_from_syllables(syllables[k])],
                                    FALSE), TRUE)
                  IN  CASE variant = "all" -> all_pronunciations
                        [] variant = "min" -> all_pronunciations[1]
                        [] variant = "max" ->
                               all_pronunciations[Len(all_pronunciations)]
        ELSE <<"1">> \o repeat(<<"0">>, count_syllables(word) - 1)

-----------------------------------------------------------------------------
(* rhymes *)

equivalents == (<<"E","R","0">> :> <<"R">>)

replace_syllables(syllables) ==
    [k \in 1..Len(syllables) |->
        IF syllables[k] \in DOMAIN equivalents THEN equivalents[syllables[k]]
        ELSE syllables[k]]

\* the outer loop of rhymes from pronunciation i of word1, with the current
\* value of the variable level.  ret is the returned boolean; used lists,
\* for every pronunciation of word1 the loop reached, the level and the
\* vowel_idx its boundary was located with.
RECURSIVE rhymes_loop(_, _, _, _)
rhymes_loop(pronunciations, pronunciations2, i, level) ==
    IF i > Len(pronunciations) THEN [ret |-> FALSE, used |-> <<>>]
    ELSE LET syllables == replace_syllables(pronunciations[i])
             level1 == IF num_vowels(syllables) < level
                       THEN num_vowels(syllables) ELSE level
             vowel_idx == get_nth_last_vowel(syllables, level1)
             here == <<[level |-> level1, vowel_idx |-> vowel_idx]>>
         IN  IF \E j \in 1..Len(pronunciations2) :
                    slice_from(syllables, vowel_idx)
                      = slice_from(replace_syllables(pronunciations2[j]), vowel_idx)
             THEN [ret |-> TRUE, used |-> here]
             ELSE LET rest == rhymes_loop(pronunciations, pronunciations2,
                                          i + 1, level1)
                  IN  [ret |-> rest.ret, used |-> here \o rest.used]

rhymes_run(word1, word2, level) ==
    LET pronunciations == get_syllables(word1)
        pronunciations2 == get_syllables(word2)
    IN  IF ~(truthy(pronunciations) /\ truthy(pronunciations2))
        THEN [ret |-> FALSE, used |-> <<>>]
        ELSE rhymes_loop(pronunciations, pronunciations2, 1, level)

rhymes(word1, word2, level) == rhymes_run(word1, word2, level).ret

DefaultLevel == 2

-----------------------------------------------------------------------------
(* rhyme_scheme: the two nested loops, one step per loop-header evaluation. *)
(* Line numbers are 1-based here (lineno 1 is Python's lineno 0); currrhyme *)
(* keeps its Python value, an index into rhyme_notation starting at -1.     *)
(* assigned_by[j] records the base lines whose group assigned line j; the   *)
(* code keeps no such record, it is history kept for stating properties.    *)

\* list(ascii_lowercase)
rhyme_notation ==
    <<"a", "b", "c", "d", "e", "f", "g", "h", "i", "j", "k", "l", "m",
      "n", "o", "p", "q", "r", "s", "t", "u", "v", "w", "x", "y", "z">>

ascii_uppercase ==
    <<"A", "B", "C", "D", "E", "F", "G", "H", "I", "J", "K", "L", "M",
      "N", "O", "P", "Q", "R", "S", "T", "U", "V", "W", "X", "Y", "Z">>

\* str.upper() on one character
upper(ch) ==
    IF \E i \in 1..Len(rhyme_notation) : rhyme_notation[i] = ch
    THEN ascii_uppercase[CHOOSE i \in 1..Len(rhyme_notation) : rhyme_notation[i] = ch]
    ELSE ch

\* line[-1]
last_word(line) == line[Len(line)]

\* the state before the first iteration (lines 165-171)
scheme_start(tokenized_poem) ==
    [scheme       |-> [i \in 1..Len(tokenized_poem) |-> "X"],
     currrhyme    |-> 0 - 1,
     lineno       |-> 0,
     futurelineno |-> 0,
     matched      |-> FALSE,
     assigned_by  |-> [i \in 1..Len(tokenized_poem) |-> {}]]

\* "for lineno in range(0, num_lines)": take the next line as base line and
\* reset matched, or leave the loop and return scheme
for_lineno(tokenized_poem, st) ==
    IF st.lineno + 1 > Len(tokenized_poem)
    THEN [pc |-> "done", locals |-> st]
    ELSE [pc |-> "for_futurelineno",
          locals |-> [st EXCEPT !.lineno = st.lineno + 1,
                                !.matched = FALSE,
                                !.futurelineno = st.lineno + 1]]

\* the body of the inner loop for the pair (lineno, futurelineno)
scheme_body(tokenized_poem, st) ==
    LET lineno == st.lineno
        futurelineno == st.futurelineno
        base_line == tokenized_poem[lineno]
        current_line == tokenized_poem[futurelineno]
    IN  IF st.scheme[futurelineno] = "X"
        THEN IF base_line = <<"">>
             THEN [st EXCEPT !.scheme[lineno] = " "]
             ELSE IF rhymes(last_word(base_line), last_word(current_line), DefaultLevel)
                  THEN LET currrhyme == IF ~st.matched THEN st.currrhyme + 1
                                        ELSE st.currrhyme
                           letter == IF base_line = current_line
                                     THEN upper(rhyme_notation[currrhyme + 1])
                                     ELSE rhyme_notation[currrhyme + 1]
                       IN  [st EXCEPT !.matched = TRUE,
                                      !.currrhyme = currrhyme,
                                      !.scheme[lineno] = letter,
                                      !.scheme[futurelineno] = letter,
                                      !.assigned_by[futurelineno] = @ \cup {lineno}]
                  ELSE st
        ELSE st

\* "for futurelineno in range(lineno + 1, num_lines)": run the body for the
\* next later line, or go back to the outer loop
for_futurelineno(tokenized_poem, st) ==
    IF st.futurelineno + 1 > Len(tokenized_poem)
    THEN [pc |-> "for_lineno", locals |-> st]
    ELSE [pc |-> "for_futurelineno",
          locals |-> scheme_body(tokenized_poem,
                                 [st EXCEPT !.futurelineno = st.futurelineno + 1])]

RECURSIVE scheme_run(_, _)
scheme_run(tokenized_poem, frame) ==
    IF frame.pc = "done" THEN frame.locals.scheme
    ELSE scheme_run(tokenized_poem,
             IF frame.pc = "for_lineno"
             THEN for_lineno(tokenized_poem, frame.locals)
             ELSE for_futurelineno(tokenized_poem, frame.locals))

rhyme_scheme(tokenized_poem) ==
    scheme_run(tokenized_poem,
               [pc |-> "for_lineno", locals |-> scheme_start(tokenized_poem)])

-----------------------------------------------------------------------------
(* Levenshtein.distance and levenshtein (the nearest-catalog classifier) *)

Min(a, b) == IF a < b THEN a ELSE b

min3(a, b, c) == Min(Min(a, b), c)

\* one row of the edit-distance table: cur holds the entries of the row for
\* b[:j-1], j = Len(cur), and prev is the row above
RECURSIVE distance_row(_, _, _, _)
distance_row(prev, ch, b, cur) ==
    IF Len(cur) > Len(b) THEN cur
    ELSE LET j == Len(cur)
         IN  distance_row(prev, ch, b,
                 Append(cur, min3(prev[j + 1] + 1,
                                  cur[j] + 1,
                                  prev[j] + (IF ch = b[j] THEN 0 ELSE 1))))

RECURSIVE distance_rows(_, _, _, _)
distance_rows(a, b, i, prev) ==
    IF i > Len(a) THEN prev[Len(b) + 1]
    ELSE distance_rows(a, b, i + 1,
             distance_row(prev, a[i], b, <<prev[1] + 1>>))

\* Levenshtein.distance(a, b): insertions, deletions and substitutions
distance(a, b) == distance_rows(a, b, 1, [j \in 1..(Len(b) + 1) |-> j - 1])

\* min() of a non-empty set of ints (min(distances) is the least key)
min(S) == CHOOSE m \in S : \A x \in S : m <= x

\* distances[d] = k
dict_set(distances, d, k) ==
    [x \in DOMAIN distances \cup {d} |-> IF x = d THEN k ELSE distances[x]]

\* the candidate v as levenshtein compares it with string
fit(v, string) ==
    IF Len(v) # Len(string)
    THEN prefix(repeat(v, (Len(string) \div Len(v)) + 1), Len(string))
    ELSE v

\* the loop with the test "edit_distance in distances and expanded" dropped:
\* every entry overwrites the key kept for its distance
RECURSIVE levenshtein_loop_overwrite(_, _, _, _)
levenshtein_loop_overwrite(string, candidates, i, distances) ==
    IF i > Len(candidates) THEN distances
    ELSE levenshtein_loop_overwrite(string, candidates, i + 1,
             dict_set(distances,
                      distance(string, fit(candidates[i][2], string)),
                      candidates[i][1]))

levenshtein_overwrite(string, candidates) ==
    LET distances == levenshtein_loop_overwrite(string, candidates, 1, <<>>)
    IN  distances[min(DOMAIN distances)]

\* the loop over candidates.items() from entry i
RECURSIVE levenshtein_loop(_, _, _, _)
levenshtein_loop(string, candidates, i, distances) ==
    IF i > Len(candidates) THEN distances
    ELSE LET k == candidates[i][1]
             expanded == Len(candidates[i][2]) # Len(string)
             v == fit(candidates[i][2], string)
             edit_distance == distance(string, v)
         IN  IF edit_distance \in DOMAIN distances /\ expanded
             THEN levenshtein_loop(string, candidates, i + 1, distances)
             ELSE levenshtein_loop(string, candidates, i + 1,
                      dict_set(distances, edit_distance, k))

levenshtein(string, candidates) ==
    LET distances == levenshtein_loop(string, candidates, 1, <<>>)
    IN  distances[min(DOMAIN distances)]

-----------------------------------------------------------------------------
(* The catalogs, as lists of <<name, pattern>> in the order the dict        *)
(* literals give them, which is the order candidates.items() yields         *)

POSSIBLE_METERS ==
    << <<"iambic trimeter",
         <<"0","1","0","1","0","1">>>>,
       <<"iambic tetrameter",
         <<"0","1","0","1","0","1","0","1">>>>,
       <<"iambic pentameter",
         <<"0","1","0","1","0","1","0","1","0","1">>>>,
       <<"trochaic tetrameter",
         <<"1","0","1","0","1","0","1","0">>>>,
       <<"trochaic pentameter",
         <<"1","0","1","0","1","0","1","0","1","0">>>> >>

POSSIBLE_RHYMES ==
    << <<"couplets",
         <<"a","a","b","b","c","c","d","d","e","e","f","f">>>>,
       <<"alternate rhyme",
         <<"a","b","a","b","c","d","c","d","e","f","e","f","g","h","g","h">>>>,
       <<"enclosed rhyme",
         <<"a","b","b","a","c","d","d","c","e","f","f","e">>>>,
       <<"rima",
         <<"a","b","a","b","c","b","c","d","c","d","e","d","e","f","e","f","g","f","g","h","g">>>>,
       <<"rondeau rhyme",
         <<"a","a","b","b","a","a","a","b","C","a","a","b","b","a","C">>>>,
       <<"shakespearean sonnet",
         <<"a","b","a","b","c","d","c","d","e","f","e","f","g","g">>>>,
       <<"limerick",
         <<"a","a","b","b","a">>>>,
       <<"no rhyme",
         <<"X","X","X","X">>>> >>

POSSIBLE_STANZAS ==
    << <<"sonnet",
         <<"1","4",",">>>>,
       <<"cinquains",
         <<"5",",">>>>,
       <<"quatrains",
         <<"4",",">>>>,
       <<"tercets",
         <<"3",",">>>> >>

-----------------------------------------------------------------------------
(* scanscion, stanza_lengths and the three guessers *)

\* [f(x) for x in lst if keep(x)] is written with SelectSeq and a map

\* truthiness of a word token and of a list
is_word(word) == word # ""

non_empty(lst) == lst # <<>>

\* [stress(word) for word in line if word]
RECURSIVE line_stresses_of(_)
line_stresses_of(line) ==
    IF line = <<>> THEN <<>>
    ELSE (IF is_word(Head(line)) THEN <<stress(Head(line), "primary")>> ELSE <<>>)
         \o line_stresses_of(Tail(line))

RECURSIVE scanscion(_)
scanscion(tokenized_poem) ==
    IF tokenized_poem = <<>> THEN <<>>
    ELSE <<line_stresses_of(Head(tokenized_poem))>> \o scanscion(Tail(tokenized_poem))

\* the names of the meter catalog in Python's str order, which decides
\* max() between two (count, name) pairs of equal count
meter_names_sorted ==
    <<"iambic pentameter", "iambic tetrameter", "iambic trimeter",
      "trochaic pentameter", "trochaic tetrameter">>

name_rank(name) ==
    CHOOSE r \in 1..Len(meter_names_sorted) : meter_names_sorted[r] = name

\* meters.count(item)
count(lst, item) == Cardinality({i \in 1..Len(lst) : lst[i] = item})

\* (c1, n1) < (c2, n2) on (count, name) tuples
pair_lt(c1, n1, c2, n2) ==
    c1 < c2 \/ (c1 = c2 /\ name_rank(n1) < name_rank(n2))

\* [''.join(line) for line in scanned if line]
RECURSIVE join_lines(_)
join_lines(scanned) ==
    IF scanned = <<>> THEN <<>>
    ELSE (IF non_empty(Head(scanned)) THEN <<join(Head(scanned))>> ELSE <<>>)
         \o join_lines(Tail(scanned))

\* [len(line) for line in joined_lines]
RECURSIVE lengths_of(_)
lengths_of(joined_lines) ==
    IF joined_lines = <<>> THEN <<>>
    ELSE <<Len(Head(joined_lines))>> \o lengths_of(Tail(joined_lines))

\* the loop "for line in joined_lines: meters.append(levenshtein(...))"
RECURSIVE meters_of(_)
meters_of(joined_lines) ==
    IF joined_lines = <<>> THEN <<>>
    ELSE <<levenshtein(Head(joined_lines), POSSIBLE_METERS)>>
         \o meters_of(Tail(joined_lines))

\* max(zip((meters.count(item) for item in set(meters)), set(meters)))[1]
most_frequent(meters) ==
    LET names == {meters[l] : l \in 1..Len(meters)}
    IN  CHOOSE m \in names :
            \A o \in names \ {m} :
                pair_lt(count(meters, o), o, count(meters, m), m)

\* the values guess_meter returns, from the joined lines
meter_result(joined_lines) ==
    [joined_lines |-> joined_lines,
     num_lines |-> Len(joined_lines),
     line_lengths |-> lengths_of(joined_lines),
     guessed_meter |-> most_frequent(meters_of(joined_lines))]

guess_meter(tokenized_poem) ==
    meter_result(join_lines(scanscion(tokenized_poem)))

not_space(ch) == ch # " "

guess_rhyme_type(tokenized_poem) ==
    LET joined_lines == rhyme_scheme(tokenized_poem)
        no_blanks == SelectSeq(joined_lines, not_space)
    IN  [joined_lines |-> joined_lines,
         guessed_rhyme |-> levenshtein(no_blanks, POSSIBLE_RHYMES)]

digit_chars == <<"0", "1", "2", "3", "4", "5", "6", "7", "8", "9">>

\* str(i) for i >= 0
RECURSIVE str_of_int(_)
str_of_int(i) ==
    IF i < 10 THEN <<digit_chars[i + 1]>>
    ELSE str_of_int(i \div 10) \o <<digit_chars[(i % 10) + 1]>>

\* the loop of stanza_lengths from line l with i lines counted
RECURSIVE stanza_loop(_, _, _, _)
stanza_loop(tokenized_poem, l, i, stanzas) ==
    IF l > Len(tokenized_poem)
    THEN IF i # 0 THEN Append(stanzas, str_of_int(i)) ELSE stanzas
    ELSE IF tokenized_poem[l] # <<"">>
         THEN stanza_loop(tokenized_poem, l + 1, i + 1, stanzas)
         ELSE stanza_loop(tokenized_poem, l + 1, 0, Append(stanzas, str_of_int(i)))

\* ','.join(stanzas)
RECURSIVE join_commas(_)
join_commas(parts) ==
    IF parts = <<>> THEN <<>>
    ELSE IF Len(parts) = 1 THEN parts[1]
    ELSE parts[1] \o <<",">> \o join_commas(Tail(parts))

stanza_lengths(tokenized_poem) ==
    join_commas(stanza_loop(tokenized_poem, 1, 0, <<>>))

guess_stanza_type(tokenized_poem) ==
    LET joined_lengths == stanza_lengths(tokenized_poem)
    IN  [joined_lengths |-> joined_lengths,
         guessed_stanza |-> levenshtein(joined_lengths, POSSIBLE_STANZAS)]

-----------------------------------------------------------------------------
(* guess_form: the rule cascade *)

\* True when every range holds, None (false) otherwise
within_ranges(line_properties, ranges) ==
    \A i \in 1..Len(ranges) :
        ranges[i][1] <= line_properties[i] /\ line_properties[i] <= ranges[i][2]

\* the cascade of lines 303-341 over the values the guessers returned
form_of(num_lines, line_lengths, meter, rhyme) ==
    IF num_lines = 3
       /\ within_ranges(line_lengths, <<<<4, 6>>, <<6, 8>>, <<4, 6>>>>)
    THEN "haiku"
    ELSE IF num_lines = 5 /\ line_lengths = <<1, 2, 3, 4, 10>>
    THEN "tetractys"
    ELSE IF num_lines = 5
            /\ within_ranges(line_lengths,
                   <<<<8, 11>>, <<8, 11>>, <<5, 7>>, <<5, 7>>, <<8, 11>>>>)
    THEN "limerick"
    ELSE IF num_lines = 5
            /\ within_ranges(line_lengths,
                   <<<<4, 6>>, <<6, 8>>, <<4, 6>>, <<6, 8>>, <<6, 8>>>>)
    THEN "tanka"
    ELSE IF num_lines = 5 /\ rhyme = "no rhyme"
    THEN "cinquain"
    ELSE IF num_lines = 8
            /\ within_ranges(line_lengths, <<repeat(<<10, 12>>, 11)>>)
            /\ rhyme = "rima"
    THEN "ottava rima"
    ELSE IF num_lines = 14
    THEN IF (meter = "iambic pentameter" /\ rhyme = "shakespearean sonnet")
            \/ rhyme = "alternate rhyme"
         THEN "Shakespearean sonnet"
         ELSE "sonnet with unusual meter"
    ELSE IF num_lines = 15
    THEN "rondeau"
    ELSE IF rhyme = "alternate rhyme" /\ meter = "iambic tetrameter"
    THEN "ballad stanza"
    ELSE IF meter = "iambic pentameter"
    THEN IF rhyme = "couplets" \/ rhyme = "shakespearean sonnet"
         THEN "heroic couplets"
         ELSE IF rhyme = "alternate rhyme" THEN "Sicilian quatrain"
         ELSE "blank verse"
    ELSE "unknown form"

-----------------------------------------------------------------------------
(* Bounds and input sets *)

MaxPhones == 4
MaxN == 3
MaxLevel == 3

BoundedSeq(S, k) == UNION {[1..m -> S] : m \in 0..k}

\* a consonant, two vowels and the vowel that rhymes normalises
PhonemeSample == {<<"T">>, <<"A","E","1">>, <<"E","R","0">>}

\* words not in the dictionary
MissWords == {"zyzzyva", "qwerty", "2000"}

\* the blank-line token of the tokenizer
Blank == ""

RhymeWords ==
    {"cat", "hat", "Cat", "old", "cold", "stew", "review", "red", "read",
     "reed", "a", "letter", "city", "hmm", "blessed", "rabid"}
    \cup MissWords \cup {Blank}

StressWords == DOMAIN CMU \cup {"Old", "Cat"} \cup MissWords \cup {Blank}

Variants == {"primary", "all", "min", "max", "longest"}

-----------------------------------------------------------------------------
(* get_nth_last_vowel(phones, n) on bounded phoneme sequences *)

InitVowel ==
    /\ pc = "call"
    /\ args \in [phones : BoundedSeq(PhonemeSample, MaxPhones), n : 0..MaxN]
    /\ locals = NoLocals
    /\ ret = NoneVal

CallVowel ==
    /\ pc = "call"
    /\ ret' = get_nth_last_vowel(args.phones, args.n)
    /\ pc' = "done"
    /\ UNCHANGED <<args, locals>>

NextVowel == CallVowel

SpecVowel == InitVowel /\ [][NextVowel]_vars

\* positions, counted from the end, of the phonemes that contain a digit
VowelsFromEnd(phones) ==
    {i \in 1..Len(phones) : is_vowel(phones[Len(phones) - i + 1])}

-----------------------------------------------------------------------------
(* rhymes(word1, word2, level) on the vocabulary *)

InitRhymes ==
    /\ pc = "call"
    /\ args \in [word1 : RhymeWords, word2 : RhymeWords, level : 1..MaxLevel]
    /\ locals = NoLocals
    /\ ret = NoneVal

CallRhymes ==
    /\ pc = "call"
    /\ LET run == rhymes_run(args.word1, args.word2, args.level)
       IN  /\ ret' = run.ret
           /\ locals' = [used |-> run.used]
    /\ pc' = "done"
    /\ UNCHANGED args

NextRhymes == CallRhymes

SpecRhymes == InitRhymes /\ [][NextRhymes]_vars

\* C2: rhymes(a, b, level) returns the same boolean as rhymes(b, a, level).
C2_Symmetric ==
    pc = "done" => ret = rhymes(args.word2, args.word1, args.level)

\* a dictionary miss: get_syllables reports a list holding one empty
\* pronunciation
is_miss(word) == get_syllables(word) = << <<>> >>

\* C5: if either word has no pronunciation in the dictionary, rhymes returns
\* False for every level (both words missing included).
C5_MissNeverRhymes ==
    (pc = "done" /\ (is_miss(args.word1) \/ is_miss(args.word2))) => ret = FALSE

\* C10: for every pronunciation p of word1 that the loop reaches, the rhyme
\* boundary is located with k = min(level passed by the caller, number of
\* vowels of p), whatever the other pronunciations of word1 are.
C10_LevelPerPronunciation ==
    pc = "done" =>
        \A i \in 1..Len(locals.used) :
            LET p == replace_syllables(get_syllables(args.word1)[i])
                k == Min(args.level, num_vowels(p))
            IN  /\ locals.used[i].level = k
                /\ locals.used[i].vowel_idx = get_nth_last_vowel(p, k)

-----------------------------------------------------------------------------
(* stress(word, variant) on the vocabulary *)

InitStress ==
    /\ pc = "call"
    /\ args \in [word : StressWords, variant : Variants]
    /\ locals = NoLocals
    /\ ret = NoneVal

CallStress ==
    /\ pc = "call"
    /\ ret' = stress(args.word, args.variant)
    /\ pc' = "done"
    /\ UNCHANGED <<args, locals>>

NextStress == CallStress

SpecStress == InitStress /\ [][NextStress]_vars

\* C6: for a word missing from the dictionary, under every variant policy,
\* stress returns '1' followed by count_syllables(word) - 1 zeros.
C6_MissFallback ==
    (pc = "done" /\ lower(args.word) \notin DOMAIN CMU) =>
        ret = <<"1">> \o repeat(<<"0">>, count_syllables(args.word) - 1)

-----------------------------------------------------------------------------
(* levenshtein(string, candidates) on bounded strings and catalogs *)

MaxStrLen == 3
MaxPatLen == 2
MaxCatalog == 2

Letters == {"a", "b"}

Patterns == BoundedSeq(Letters, MaxPatLen) \ {<<>>}

\* the keys of a catalog, in iteration order
CatalogKeys == [i \in 1..(MaxCatalog + 1) |-> <<"k", i>>]

Catalogs ==
    UNION {{[i \in 1..m |-> <<CatalogKeys[i], pats[i]>>] :
               pats \in [1..m -> Patterns]} : m \in 1..MaxCatalog}

InitLev ==
    /\ pc = "call"
    /\ args \in [string : BoundedSeq(Letters, MaxStrLen), candidates : Catalogs]
    /\ locals = NoLocals
    /\ ret = NoneVal

CallLev ==
    /\ pc = "call"
    /\ ret' = levenshtein(args.string, args.candidates)
    /\ pc' = "done"
    /\ UNCHANGED <<args, locals>>

NextLev == CallLev

SpecLev == InitLev /\ [][NextLev]_vars

\* the distance of catalog entry i, compared as the classifier compares it
EntryDistance(i) == distance(args.string, fit(args.candidates[i][2], args.string))

IsExact(i) == Len(args.candidates[i][2]) = Len(args.string)

IsNearest(i) ==
    \A j \in 1..Len(args.candidates) : EntryDistance(i) <= EntryDistance(j)

\* C8: the returned key is that of an entry at minimum edit distance, and
\* when an entry of exactly the observed length attains the minimum, the
\* returned key is that of such an entry, whatever the iteration order.
C8_NearestPrefersExact ==
    pc = "done" =>
        LET I == 1..Len(args.candidates)
        IN  /\ \E i \in I : args.candidates[i][1] = ret /\ IsNearest(i)
            /\ (\E i \in I : IsExact(i) /\ IsNearest(i)) =>
                   \E i \in I : /\ args.candidates[i][1] = ret
                                /\ IsExact(i)
                                /\ IsNearest(i)

\* an exact-length entry comes first, an expanded entry at the same distance
\* comes second, and the exact one is returned
C8_Witness ==
    /\ pc = "done"
    /\ args.string = <<"a", "b">>
    /\ args.candidates = << <<CatalogKeys[1], <<"a", "a">>>>, <<CatalogKeys[2], <<"a">>>> >>
    /\ ret = CatalogKeys[1]

-----------------------------------------------------------------------------
(* rhyme_scheme(tokenized_poem) on bounded poems, step by step *)

MaxLines == 4

\* rhyming pairs, a word with two pronunciations between its two rhymes, a
\* word missing from the dictionary and the blank line
LineSample ==
    {<<"the", "cat">>, <<"a", "hat">>, <<"the", "dog">>, <<"red">>,
     <<"read">>, <<"reed">>, <<"zyzzyva">>, <<Blank>>}

InitScheme ==
    /\ pc = "for_lineno"
    /\ args \in [tokenized_poem : BoundedSeq(LineSample, MaxLines)]
    /\ locals = scheme_start(args.tokenized_poem)
    /\ ret = NoneVal

ForLineno ==
    /\ pc = "for_lineno"
    /\ LET nxt == for_lineno(args.tokenized_poem, locals)
       IN  /\ pc' = nxt.pc
           /\ locals' = nxt.locals
           /\ ret' = IF nxt.pc = "done" THEN nxt.locals.scheme ELSE ret
    /\ UNCHANGED args

ForFutureLineno ==
    /\ pc = "for_futurelineno"
    /\ LET nxt == for_futurelineno(args.tokenized_poem, locals)
       IN  /\ pc' = nxt.pc
           /\ locals' = nxt.locals
    /\ UNCHANGED <<args, ret>>

NextScheme == ForLineno \/ ForFutureLineno

SpecScheme == InitScheme /\ [][NextScheme]_vars

is_upper(ch) == \E i \in 1..Len(ascii_uppercase) : ascii_uppercase[i] = ch

\* C3: in the returned scheme every blank line is marked with the space
\* character, whatever its position and whatever marks later lines carry.
C3_BlankIsSpace ==
    pc = "done" =>
        \A i \in 1..Len(args.tokenized_poem) :
            args.tokenized_poem[i] = <<Blank>> => ret[i] = " "

\* C4: if two non-blank lines i < j are token-for-token identical and line j
\* was matched to line i, both carry an uppercase letter in the returned
\* scheme, also when line i rhymes with later lines that are not identical.
C4_IdenticalUppercase ==
    pc = "done" =>
        \A i, j \in 1..Len(args.tokenized_poem) :
            (/\ i < j
             /\ args.tokenized_poem[i] = args.tokenized_poem[j]
             /\ args.tokenized_poem[i] # <<Blank>>
             /\ i \in locals.assigned_by[j])
            => is_upper(ret[i]) /\ is_upper(ret[j])

\* C9: once a line has been assigned by the group of an earlier line, no
\* step taken while it is the base line changes its entry or advances the
\* letter counter.
C9_AssignedLineKept ==
    [][(pc = "for_futurelineno" /\ locals.assigned_by[locals.lineno] # {})
        => /\ locals'.scheme[locals.lineno] = locals.scheme[locals.lineno]
           /\ locals'.currrhyme = locals.currrhyme]_vars

-----------------------------------------------------------------------------
(* guess_form(tokenized_poem), statement by statement, on a family of      *)
(* poems: every line is a metrical run of "the"/"cat" closed by the line's  *)
(* last word; the last words follow a rhyme layout; one blank line may      *)
(* follow any line (the last included).                                     *)

\* the words before the last word of a line
LineStart(kind) ==
    CASE kind = "tetrameter" ->
             <<"the", "cat", "the", "cat", "the", "cat", "the">>
      [] kind = "pentameter" ->
             <<"the", "cat", "the", "cat", "the", "cat", "the", "cat", "the">>
      [] kind = "trochaic" ->
             <<"cat", "the", "cat", "the", "cat", "the", "cat">>
      [] kind = "short" -> <<"the", "cat", "the", "cat">>

LineKinds == {"tetrameter", "pentameter", "trochaic", "short"}

\* the last words of the lines, in line order
Layout(name) ==
    CASE name = "alternate" ->
             <<"cat", "dog", "hat", "log", "bee", "day", "tree", "way",
               "moon", "night", "soon", "light", "sun", "old", "fun">>
      [] name = "sonnet" ->
             <<"cat", "dog", "hat", "log", "bee", "day", "tree", "way",
               "moon", "night", "soon", "light", "sun", "fun", "old">>
      [] name = "couplets" ->
             <<"cat", "hat", "dog", "log", "bee", "tree", "day", "way",
               "moon", "soon", "night", "light", "sun", "fun", "old">>
      [] name = "none" ->
             <<"cat", "dog", "bee", "day", "moon", "night", "sun", "old",
               "stew", "red", "reed", "letter", "hmm", "rabid", "qwerty">>

LayoutNames == {"alternate", "sonnet", "couplets", "none"}

LineCounts == {3, 5, 8, 14, 15}

\* where the blank line goes: nowhere, after a quatrain, before the last
\* line of a sonnet, or after the last line of the poem
BlankAfter(n) == {0, n} \cup {b \in {4, 8, 12, 13} : b < n}

\* the poem of n lines, with a blank line after line blank_after (none for 0)
RECURSIVE PoemLines(_, _, _, _, _)
PoemLines(kind, layout, n, blank_after, l) ==
    IF l > n THEN <<>>
    ELSE <<Append(LineStart(kind), Layout(layout)[l])>>
         \o (IF l = blank_after THEN <<<<Blank>>>> ELSE <<>>)
         \o PoemLines(kind, layout, n, blank_after, l + 1)

FormPoems ==
    UNION {{PoemLines(kind, layout, n, b, 1) :
               kind \in LineKinds, layout \in LayoutNames, b \in BlankAfter(n)} :
           n \in LineCounts}

InitForm ==
    /\ pc = "guess_meter"
    /\ args \in [tokenized_poem : FormPoems]
    /\ locals = NoLocals
    /\ ret = NoneVal

\* line 288
GuessMeter ==
    /\ pc = "guess_meter"
    /\ \E m \in {guess_meter(args.tokenized_poem)} :
           locals' = [metrical_scheme |-> m.joined_lines,
                      num_lines |-> m.num_lines,
                      line_lengths |-> m.line_lengths,
                      meter |-> m.guessed_meter]
    /\ pc' = "guess_rhyme_type"
    /\ UNCHANGED <<args, ret>>

\* line 290
GuessRhymeType ==
    /\ pc = "guess_rhyme_type"
    /\ \E r \in {guess_rhyme_type(args.tokenized_poem)} :
           locals' = [metrical_scheme |-> locals.metrical_scheme,
                      num_lines |-> locals.num_lines,
                      line_lengths |-> locals.line_lengths,
                      meter |-> locals.meter,
                      rhyme_scheme_string |-> r.joined_lines,
                      rhyme |-> r.guessed_rhyme]
    /\ pc' = "guess_stanza_type"
    /\ UNCHANGED <<args, ret>>

\* line 291
GuessStanzaType ==
    /\ pc = "guess_stanza_type"
    /\ \E t \in {guess_stanza_type(args.tokenized_poem)} :
           locals' = [metrical_scheme |-> locals.metrical_scheme,
                      num_lines |-> locals.num_lines,
                      line_lengths |-> locals.line_lengths,
                      meter |-> locals.meter,
                      rhyme_scheme_string |-> locals.rhyme_scheme_string,
                      rhyme |-> locals.rhyme,
                      stanza_length_string |-> t.joined_lengths,
                      stanza |-> t.guessed_stanza]
    /\ pc' = "classify"
    /\ UNCHANGED <<args, ret>>

\* lines 303-341
Classify ==
    /\ pc = "classify"
    /\ ret' = form_of(locals.num_lines, locals.line_lengths,
                      locals.meter, locals.rhyme)
    /\ pc' = "done"
    /\ UNCHANGED <<args, locals>>

NextForm == GuessMeter \/ GuessRhymeType \/ GuessStanzaType \/ Classify

SpecForm == InitForm /\ [][NextForm]_vars

\* C1: on 14 non-blank lines guess_form returns 'Shakespearean sonnet' if
\* and only if the meter is 'iambic pentameter' and the rhyme is
\* 'shakespearean sonnet' or 'alternate rhyme', and 'sonnet with unusual
\* meter' for every other (meter, rhyme) combination.
C1_SonnetRule ==
    (pc = "done" /\ locals.num_lines = 14) =>
        IF /\ locals.meter = "iambic pentameter"
           /\ locals.rhyme \in {"shakespearean sonnet", "alternate rhyme"}
        THEN ret = "Shakespearean sonnet"
        ELSE ret = "sonnet with unusual meter"

=============================================================================
